---- MODULE Spec2Model ----
(***************************************************************************)
(* State-machine model of the morphing tree scene: the App state (mode,    *)
(* photos, focused photo, vision toggle), the Experience frame callback    *)
(* with the gesture classifier, the hand-tracking setup effect, the morph  *)
(* clocks of the foliage / ornament / gift groups and the photo frames     *)
(* with their zoom distance.                                               *)
(*                                                                         *)
(* Numbers are fixed point:                                                *)
(*   landmark coordinates, rotation targets, zoom distances : 1/100        *)
(*   averaged / compared landmark distances                  : 1/10000     *)
(*   morph progress and photo scale                          : 1/100000    *)
(*   frame delta                                             : 1/600 s     *)
(***************************************************************************)
EXTENDS Integers, Sequences, FiniteSets, TLC

\* ------------------------------------------------------------------ bounds
MaxPhotos == 2
MaxTicks == 3
MaxSetups == 2
MaxVideoTime == 2
ConvergeFrames == 300

\* --------------------------------------------------------------- TreeState
SCATTERED == "SCATTERED"
TREE_SHAPE == "TREE_SHAPE"
FOCUS == "FOCUS"
TreeState == {SCATTERED, TREE_SHAPE, FOCUS}

\* focusedPhotoId: string | null
NULL == <<"null">>
\* `photo-${index}`
PhotoId(index) == <<"photo", index>>

\* ------------------------------------------------------------ arithmetic
\* n / d rounded to the nearest integer (d > 0)
Round(n, d) == (2 * n + d) \div (2 * d)
\* Math.sqrt on the fixed-point grid (floor of the root), by bisection
RECURSIVE SqrtIn(_, _, _)
SqrtIn(n, lo, hi) ==
  IF lo = hi THEN lo
  ELSE LET mid == (lo + hi + 1) \div 2
       IN IF mid * mid <= n THEN SqrtIn(n, mid, hi) ELSE SqrtIn(n, lo, mid - 1)

Sqrt(n) == SqrtIn(n, 0, 255)
\* Math.floor(r * n) for r in units of 1/1000
Floor1000(n) == n \div 1000

\* mutant of clamp: the lower bound is not applied
clampMaxOnly(value, min, max) == IF value > max THEN max ELSE value

\* THREE.MathUtils.clamp(value, min, max)
clamp(value, min, max) ==
  IF value < min THEN min ELSE IF value > max THEN max ELSE value

\* THREE.MathUtils.lerp(x, y, t) = (1 - t) * x + t * y with t = tn / td;
\* t is NOT clamped.
lerp(x, y, tn, td) == Round((td - tn) * x + tn * y, td)

\* ---------------------------------------------------------------- state
VARIABLES
  treeState,          \* App: useState<TreeState>
  userPhotos,         \* App: useState<string[]>, object URLs as naturals
  focusedPhotoId,     \* App: useState<string | null>
  visionEnabled,      \* App: useState(false)
  treeStateUpdates,   \* setTreeState calls queued by the last handler run
  focusDistance,      \* PhotoFrame: focusDistance ref, per photo index
  wheelListeners,     \* photo indexes whose handleWheel is on window
  zoomStart,          \* history: zoom distance of the focused photo when it
                      \* was last set without a wheel sum (reset or clamped)
  zoomSum,            \* history: sum of the wheel deltaY handled since then
  treePoint,          \* observation: arguments and result of the last
                      \* getTreePoint call made by a data generator
  photoTarget,        \* PhotoFrame.useFrame: branch taken in the last frame
  photoScale,         \* PhotoFrame: groupRef.scale, per photo index
  photoPosition,      \* PhotoFrame: groupRef.position (y, z), per index
  photosData,         \* UserPhotos: photosData (id, url, scale, tree,
                      \* scatter) per index
  uMorphFactor,       \* Foliage: shader uniform
  morphValue,         \* Ornaments / Gifts: mesh.userData.morphValue per mesh
  targetRotation,     \* Experience: targetRotation ref {x, y}
  lastVideoTimeRef,   \* Experience: lastVideoTimeRef
  handLandmarkerRef,  \* Experience: handLandmarkerRef (0 = null)
  videoRef,           \* Experience: videoRef set to the #webcam element
  video,              \* the #webcam element
  nSetups,            \* runs of the setup effect so far
  setupPc,            \* per effect run: position of setupHandTracking
                      \* ("caught": it ended in its catch block)
  isMounted,          \* per effect run: its isMounted flag
  landmarker,         \* per effect run: the HandLandmarker it created
  stream,             \* per effect run: the MediaStream it acquired
  frameLoop,          \* "running", or "crashed" once a frame callback threw
  event,              \* the input handled by the last step
  ticks               \* animation frame callbacks run so far

appVars == <<treeState, userPhotos, focusedPhotoId, treeStateUpdates>>
photoVars == <<focusDistance, wheelListeners, zoomStart, zoomSum, treePoint,
               photoTarget, photoScale, photoPosition, photosData>>
morphVars == <<uMorphFactor, morphValue>>
gestureVars == <<targetRotation, lastVideoTimeRef>>
visionVars == <<visionEnabled, handLandmarkerRef, videoRef, video, nSetups,
                setupPc, isMounted, landmarker, stream>>
vars == <<appVars, photoVars, morphVars, gestureVars, visionVars, frameLoop,
          event, ticks>>

Meshes == {"gold", "ceramic", "satin", "boxes", "gifts"}
Setups == 1..MaxSetups

\* an input: its handler, and what came with it
Event(type, status, n, landmarks) ==
  [type |-> type, status |-> status, n |-> n, landmarks |-> landmarks]

\* indexes of the mounted PhotoFrames for a photo list
PhotoIndexes(photos) == 0..(Len(photos) - 1)

\* getTreePoint has not been called
NoTreePoint ==
  [called |-> FALSE, height |-> 0, radius |-> 0, yOffset |-> 0,
   x |-> 0, y |-> 0, z |-> 0]

\* <video id="webcam"> with no source
EmptyVideo ==
  [srcObject |-> 0, readyState |-> 0, paused |-> TRUE, videoWidth |-> 0,
   videoHeight |-> 0, currentTime |-> 0, onloadedmetadata |-> 0]

Init ==
  /\ treeState = SCATTERED
  /\ userPhotos = <<>>
  /\ focusedPhotoId = NULL
  /\ visionEnabled = FALSE
  /\ treeStateUpdates = <<>>
  /\ focusDistance = <<>>
  /\ wheelListeners = {}
  /\ zoomStart = 1500
  /\ zoomSum = 0
  /\ treePoint = NoTreePoint
  /\ photoTarget = <<>>
  /\ photoScale = <<>>
  /\ photoPosition = <<>>
  /\ photosData = <<>>
  /\ uMorphFactor = 0
  /\ morphValue = [m \in Meshes |-> 0]
  /\ targetRotation = [x |-> 0, y |-> 0]
  /\ lastVideoTimeRef = -1
  /\ handLandmarkerRef = 0
  /\ videoRef = FALSE
  /\ video = EmptyVideo
  /\ nSetups = 0
  /\ setupPc = [i \in Setups |-> "unstarted"]
  /\ isMounted = [i \in Setups |-> FALSE]
  /\ landmarker = [i \in Setups |-> "none"]
  /\ stream = [i \in Setups |-> "none"]
  /\ frameLoop = "running"
  /\ event = Event("start", "", 0, <<>>)
  /\ ticks = 0

\* ------------------------------------------------- React state updates
\* an update handed to setTreeState: a value, or toggleState's updater
SetValue(v) == [updater |-> FALSE, value |-> v]
ToggleUpdater == [updater |-> TRUE, value |-> "prev"]

\* mutant of toggleStateUpdater: the button leaves Focus for SCATTERED
toggleStateUpdaterFromScatter(prev) ==
  IF prev = SCATTERED THEN TREE_SHAPE ELSE SCATTERED

\* (prev) => prev === TREE_SHAPE ? SCATTERED : TREE_SHAPE
toggleStateUpdater(prev) == IF prev = TREE_SHAPE THEN SCATTERED ELSE TREE_SHAPE

\* React processes the queued updates of one batch in the order issued
RECURSIVE ApplyUpdates(_, _)
ApplyUpdates(prev, queue) ==
  IF queue = <<>> THEN prev
  ELSE ApplyUpdates(IF Head(queue).updater THEN toggleStateUpdater(prev)
                    ELSE Head(queue).value,
                    Tail(queue))

\* isFocused && state === FOCUS for the PhotoFrame of an index
FocusActive(index, state, focusedId) ==
  focusedId = PhotoId(index) /\ state = FOCUS

\* Commit of treeState / focusedPhotoId / userPhotos and the PhotoFrame
\* effects that follow it: the wheel effect (deps [isFocused, state]) is
\* cleaned up and re-run for every frame whose deps changed, and runs on
\* mount for a new frame; when it runs with isFocused && state === FOCUS it
\* resets focusDistance to 15.0 and registers handleWheel.
Render(state, focusedId, photos) ==
  LET old == PhotoIndexes(userPhotos)
      new == PhotoIndexes(photos)
      depsChanged(k) ==
        \/ k \notin old
        \/ (focusedPhotoId = PhotoId(k)) # (focusedId = PhotoId(k))
        \/ treeState # state
  IN
  /\ treeState' = state
  /\ focusedPhotoId' = focusedId
  /\ userPhotos' = photos
  /\ focusDistance' =
       [k \in new |->
          IF depsChanged(k) /\ FocusActive(k, state, focusedId) THEN 1500
          ELSE IF k \in old THEN focusDistance[k]
          ELSE 1500]
  /\ wheelListeners' = {k \in new : FocusActive(k, state, focusedId)}
  /\ IF \E k \in new : ~depsChanged(k) /\ FocusActive(k, state, focusedId)
     THEN UNCHANGED <<zoomStart, zoomSum>>
     ELSE zoomStart' = 1500 /\ zoomSum' = 0

\* a PhotoFrame keeps its group between renders; a newly mounted group has
\* the default scale 1 and position (0, 0, 0), and no frame callback has run
\* on it yet
KeepPhotoGroups(photos) ==
  /\ photoTarget' = [k \in PhotoIndexes(photos) |->
                       IF k \in DOMAIN photoTarget THEN photoTarget[k] ELSE "NONE"]
  /\ photoScale' = [k \in PhotoIndexes(photos) |->
                      IF k \in DOMAIN photoScale THEN photoScale[k] ELSE 100000]
  /\ photoPosition' = [k \in PhotoIndexes(photos) |->
                         IF k \in DOMAIN photoPosition THEN photoPosition[k]
                         ELSE [y |-> 0, z |-> 0]]

\* ------------------------------------------------------------ UI actions
\* App.toggleState
toggleState ==
  /\ event' = Event("toggleState", "", 0, <<>>)
  /\ treeStateUpdates' = <<ToggleUpdater>>
  /\ Render(ApplyUpdates(treeState, <<ToggleUpdater>>), focusedPhotoId, userPhotos)
  /\ UNCHANGED <<treePoint, photoTarget, photoScale, photoPosition,
                 photosData, morphVars,
                 gestureVars, visionVars, frameLoop, ticks>>

\* App.handlePhotoUpload with n >= 1 files: fresh object URLs are appended;
\* UserPhotos.photosData (useMemo on [photos]) is regenerated for every
\* index, each entry with a new random scale and new random tree and
\* scatter positions (places)
handlePhotoUpload(n, scales, places) ==
  /\ event' = Event("upload", "", n, <<>>)
  /\ n >= 1
  /\ Len(userPhotos) + n <= MaxPhotos
  /\ DOMAIN scales = PhotoIndexes(userPhotos) \cup
                       (Len(userPhotos)..(Len(userPhotos) + n - 1))
  /\ DOMAIN places = DOMAIN scales
  /\ treeStateUpdates' = <<>>
  /\ Render(treeState, focusedPhotoId,
            userPhotos \o [i \in 1..n |-> Len(userPhotos) + i])
  /\ photosData' = [k \in DOMAIN scales |-> [id |-> PhotoId(k),
                                              url |-> k + 1,
                                              scale |-> scales[k],
                                              tree |-> places[k].tree,
                                              scatter |-> places[k].scatter]]
  /\ KeepPhotoGroups(userPhotos \o [i \in 1..n |-> Len(userPhotos) + i])
  /\ UNCHANGED <<treePoint, morphVars, gestureVars, visionVars, frameLoop,
                 ticks>>

\* Experience.handlePhotoClick(id), from the onClick of a mounted PhotoFrame
handlePhotoClick(index) ==
  /\ event' = Event("click", "", index, <<>>)
  /\ index \in PhotoIndexes(userPhotos)
  /\ treeStateUpdates' = <<SetValue(FOCUS)>>
  /\ Render(ApplyUpdates(treeState, <<SetValue(FOCUS)>>), PhotoId(index), userPhotos)
  /\ UNCHANGED <<treePoint, photoTarget, photoScale, photoPosition,
                 photosData, morphVars,
                 gestureVars, visionVars, frameLoop, ticks>>

\* mutant of zoomBy: zooming out at half the speed of zooming in
zoomByLopsided(distance, deltaY) ==
  distance + (IF deltaY > 0 THEN deltaY ELSE deltaY * 2)

\* focusDistance.current + e.deltaY * zoomSpeed, zoomSpeed = 0.02
zoomBy(distance, deltaY) == distance + deltaY * 2

\* PhotoFrame.handleWheel: every registered listener gets the wheel event;
\* zoomSpeed = 0.02
handleWheel(deltaY) ==
  /\ event' = Event("wheel", "", deltaY, <<>>)
  /\ focusDistance' =
       [k \in DOMAIN focusDistance |->
          IF k \in wheelListeners
          THEN clamp(zoomBy(focusDistance[k], deltaY), 500, 4000)
          ELSE focusDistance[k]]
  /\ IF wheelListeners = {}
     THEN UNCHANGED <<zoomStart, zoomSum>>
     ELSE \E k \in wheelListeners :
            IF zoomBy(focusDistance[k], deltaY) <= 500
               \/ zoomBy(focusDistance[k], deltaY) >= 4000
            THEN zoomStart' = focusDistance'[k] /\ zoomSum' = 0
            ELSE zoomStart' = zoomStart /\ zoomSum' = zoomSum + deltaY
  /\ UNCHANGED <<appVars, wheelListeners, treePoint, photoTarget, photoScale,
                 photoPosition, photosData,
                 morphVars,
                 gestureVars, visionVars, frameLoop, ticks>>

\* ------------------------------------------- hand-tracking setup effect
\* the <video> element once its source is replaced or removed (media
\* element load algorithm): nothing loaded, paused, no dimensions
ResetVideo(src, handler) ==
  [srcObject |-> src, readyState |-> 0, paused |-> TRUE, videoWidth |-> 0,
   videoHeight |-> 0, currentTime |-> 0, onloadedmetadata |-> handler]

\* mutant of Cleanup: the video source is dropped without stopping tracks
CleanupKeepsTracks(i) ==
  /\ isMounted' = [isMounted EXCEPT ![i] = FALSE]
  /\ landmarker' =
       IF handLandmarkerRef # 0
       THEN [landmarker EXCEPT ![handLandmarkerRef] = "closed"]
       ELSE landmarker
  /\ handLandmarkerRef' = 0
  /\ stream' = stream
  /\ IF video.srcObject # 0
     THEN video' = ResetVideo(0, video.onloadedmetadata)
     ELSE UNCHANGED video

\* mutant of Cleanup: the camera part of the cleanup is missing
CleanupKeepsCamera(i) ==
  /\ isMounted' = [isMounted EXCEPT ![i] = FALSE]
  /\ landmarker' =
       IF handLandmarkerRef # 0
       THEN [landmarker EXCEPT ![handLandmarkerRef] = "closed"]
       ELSE landmarker
  /\ handLandmarkerRef' = 0
  /\ UNCHANGED <<stream, video>>

\* cleanup function returned by the setup effect of run i
Cleanup(i) ==
  /\ isMounted' = [isMounted EXCEPT ![i] = FALSE]
  /\ landmarker' =
       IF handLandmarkerRef # 0
       THEN [landmarker EXCEPT ![handLandmarkerRef] = "closed"]
       ELSE landmarker
  /\ handLandmarkerRef' = 0
  /\ IF video.srcObject # 0
     THEN /\ stream' = [stream EXCEPT ![video.srcObject] = "stopped"]
          /\ video' = ResetVideo(0, video.onloadedmetadata)
     ELSE UNCHANGED <<stream, video>>

\* App.toggleVision, then the effect with deps [visionEnabled]: enabling
\* starts a new run of setupHandTracking (up to its first await), disabling
\* runs the cleanup of the current run
toggleVision ==
  /\ event' = Event("toggleVision", "", 0, <<>>)
  /\ visionEnabled' = ~visionEnabled
  /\ IF ~visionEnabled
     THEN /\ nSetups < MaxSetups
          /\ nSetups' = nSetups + 1
          /\ isMounted' = [isMounted EXCEPT ![nSetups + 1] = TRUE]
          /\ setupPc' = [setupPc EXCEPT ![nSetups + 1] = "fileset"]
          /\ UNCHANGED <<handLandmarkerRef, video, landmarker, stream>>
     ELSE /\ Cleanup(nSetups)
          /\ UNCHANGED <<nSetups, setupPc>>
  /\ UNCHANGED <<appVars, photoVars, morphVars, gestureVars, videoRef,
                 frameLoop, ticks>>

\* await FilesetResolver.forVisionTasks(...) settles for run i
filesetSettled(i, ok) ==
  /\ event' = Event("fileset", IF ok THEN "resolved" ELSE "rejected", i, <<>>)
  /\ setupPc[i] = "fileset"
  /\ setupPc' = [setupPc EXCEPT ![i] =
                   IF ~ok THEN "caught"
                   ELSE IF isMounted[i] THEN "create" ELSE "done"]
  /\ UNCHANGED <<appVars, photoVars, morphVars, gestureVars, visionEnabled,
                 handLandmarkerRef, videoRef, video, nSetups, isMounted,
                 landmarker, stream, frameLoop, ticks>>

\* mutant of landmarkerSettled: no isMounted test after the await
landmarkerSettledUnchecked(i, ok, hasMedia) ==
  /\ event' = Event("landmarker", IF ok THEN "resolved" ELSE "rejected", i, <<>>)
  /\ setupPc[i] = "create"
  /\ IF ~ok
     THEN /\ setupPc' = [setupPc EXCEPT ![i] = "caught"]
          /\ UNCHANGED <<landmarker, handLandmarkerRef, videoRef>>
     ELSE /\ landmarker' = [landmarker EXCEPT ![i] = "open"]
          /\ handLandmarkerRef' = i
          /\ videoRef' = TRUE
          /\ setupPc' = [setupPc EXCEPT ![i] = IF hasMedia THEN "media" ELSE "done"]
  /\ UNCHANGED <<appVars, photoVars, morphVars, gestureVars, visionEnabled,
                 video, nSetups, isMounted, stream, frameLoop, ticks>>

\* await HandLandmarker.createFromOptions(...) settles for run i;
\* hasMedia: navigator.mediaDevices && navigator.mediaDevices.getUserMedia
landmarkerSettled(i, ok, hasMedia) ==
  /\ event' = Event("landmarker", IF ok THEN "resolved" ELSE "rejected", i, <<>>)
  /\ setupPc[i] = "create"
  /\ IF ~ok
     THEN /\ setupPc' = [setupPc EXCEPT ![i] = "caught"]
          /\ UNCHANGED <<landmarker, handLandmarkerRef, videoRef>>
     ELSE IF ~isMounted[i]
     THEN /\ landmarker' = [landmarker EXCEPT ![i] = "closed"]
          /\ setupPc' = [setupPc EXCEPT ![i] = "done"]
          /\ UNCHANGED <<handLandmarkerRef, videoRef>>
     ELSE /\ landmarker' = [landmarker EXCEPT ![i] = "open"]
          /\ handLandmarkerRef' = i
          /\ videoRef' = TRUE
          /\ setupPc' = [setupPc EXCEPT ![i] = IF hasMedia THEN "media" ELSE "done"]
  /\ UNCHANGED <<appVars, photoVars, morphVars, gestureVars, visionEnabled,
                 video, nSetups, isMounted, stream, frameLoop, ticks>>

\* await navigator.mediaDevices.getUserMedia(...) settles for run i
mediaSettled(i, ok) ==
  /\ event' = Event("media", IF ok THEN "resolved" ELSE "rejected", i, <<>>)
  /\ setupPc[i] = "media"
  /\ setupPc' = [setupPc EXCEPT ![i] = IF ok THEN "done" ELSE "caught"]
  /\ IF ~ok
     THEN UNCHANGED <<stream, video>>
     ELSE IF ~isMounted[i]
     THEN /\ stream' = [stream EXCEPT ![i] = "stopped"]
          /\ UNCHANGED video
     ELSE /\ stream' = [stream EXCEPT ![i] = "live"]
          /\ video' = ResetVideo(i, i)
  /\ UNCHANGED <<appVars, photoVars, morphVars, gestureVars, visionEnabled,
                 handLandmarkerRef, videoRef, nSetups, isMounted, landmarker,
                 frameLoop, ticks>>

\* ------------------------------------------------ the <video> element
\* loadedmetadata fires for the attached stream; the handler installed by
\* run i calls video.play() if that run is still mounted; play() either
\* starts playback or rejects (logged)
videoLoadedMetadata(playOk) ==
  /\ event' = Event("loadedmetadata", "", 0, <<>>)
  /\ video.srcObject # 0
  /\ video.readyState = 0
  /\ video' = [video EXCEPT
       !.readyState = 1,
       !.videoWidth = 1280,
       !.videoHeight = 720,
       !.paused = ~(video.onloadedmetadata # 0
                    /\ isMounted[video.onloadedmetadata] /\ playOk)]
  /\ UNCHANGED <<appVars, photoVars, morphVars, gestureVars, visionEnabled,
                 handLandmarkerRef, videoRef, nSetups, setupPc, isMounted,
                 landmarker, stream, frameLoop, ticks>>

\* the first frame of the stream is available (HAVE_CURRENT_DATA)
videoLoadedData ==
  /\ event' = Event("loadeddata", "", 0, <<>>)
  /\ video.srcObject # 0
  /\ video.readyState = 1
  /\ video' = [video EXCEPT !.readyState = 2]
  /\ UNCHANGED <<appVars, photoVars, morphVars, gestureVars, visionEnabled,
                 handLandmarkerRef, videoRef, nSetups, setupPc, isMounted,
                 landmarker, stream, frameLoop, ticks>>

\* playback presents a new video frame: currentTime advances
videoTimeUpdate ==
  /\ event' = Event("timeupdate", "", 0, <<>>)
  /\ video.srcObject # 0
  /\ video.readyState >= 2
  /\ ~video.paused
  /\ video.currentTime < MaxVideoTime
  /\ video' = [video EXCEPT !.currentTime = @ + 1]
  /\ UNCHANGED <<appVars, photoVars, morphVars, gestureVars, visionEnabled,
                 handLandmarkerRef, videoRef, nSetups, setupPc, isMounted,
                 landmarker, stream, frameLoop, ticks>>

\* ------------------------------------------------- gesture classifier
Point(x, y, z) == [x |-> x, y |-> y, z |-> z]

\* detectGestures: const dist = (p1, p2) => Math.sqrt(dx^2 + dy^2 + dz^2)
dist(p1, p2) ==
  Sqrt((p1.x - p2.x) * (p1.x - p2.x) + (p1.y - p2.y) * (p1.y - p2.y)
       + (p1.z - p2.z) * (p1.z - p2.z))

\* tips.reduce((acc, tip) => acc + dist(tip, wrist), 0) / 4, in 1/10000
avgDistToWrist(landmarks) ==
  ((dist(landmarks[8], landmarks[0]) + dist(landmarks[12], landmarks[0])
    + dist(landmarks[16], landmarks[0]) + dist(landmarks[20], landmarks[0]))
   * 100) \div 4

\* dist(thumbTip, indexTip), in 1/10000
pinchDist(landmarks) == dist(landmarks[4], landmarks[8]) * 100

\* mutant of GestureRule: the pinch test comes before the fist test
GestureRulePinchFirst(landmarks) ==
  IF pinchDist(landmarks) < 500 THEN "PINCH"
  ELSE IF avgDistToWrist(landmarks) < 1500 THEN "FIST"
  ELSE IF avgDistToWrist(landmarks) > 3500 THEN "OPEN"
  ELSE "NONE"

\* mutant of GestureRule: the thresholds are inclusive
GestureRuleInclusive(landmarks) ==
  IF avgDistToWrist(landmarks) <= 1500 THEN "FIST"
  ELSE IF avgDistToWrist(landmarks) >= 3500 THEN "OPEN"
  ELSE IF pinchDist(landmarks) < 500 THEN "PINCH"
  ELSE "NONE"

\* the branch of the state-machine if / else-if chain a sample falls in:
\* avgDistToWrist < 0.15, else avgDistToWrist > 0.35, else pinchDist < 0.05
GestureRule(landmarks) ==
  IF avgDistToWrist(landmarks) < 1500 THEN "FIST"
  ELSE IF avgDistToWrist(landmarks) > 3500 THEN "OPEN"
  ELSE IF pinchDist(landmarks) < 500 THEN "PINCH"
  ELSE "NONE"

\* mutant of FistUpdates: setTreeState is called without the comparison
FistUpdatesUnguarded == <<SetValue(TREE_SHAPE)>>

\* if (treeState !== TreeState.TREE_SHAPE) setTreeState(TreeState.TREE_SHAPE)
FistUpdates ==
  IF treeState # TREE_SHAPE THEN <<SetValue(TREE_SHAPE)>> ELSE <<>>

\* if (treeState !== TreeState.SCATTERED) setTreeState(TreeState.SCATTERED)
OpenUpdates ==
  IF treeState # SCATTERED THEN <<SetValue(SCATTERED)>> ELSE <<>>

\* mutant of PinchApplies: a pinch picks a photo in Focus too
PinchAppliesInFocus == Len(userPhotos) > 0

\* mutant of PinchApplies: a pinch enters Focus with no photo uploaded
PinchAppliesNoPhotos == treeState # FOCUS

\* treeState !== TreeState.FOCUS && userPhotos.length > 0
PinchApplies == treeState # FOCUS /\ Len(userPhotos) > 0

\* mutant of randomId: Math.round in place of Math.floor
randomIdRound(random) == PhotoId((random * Len(userPhotos) + 500) \div 1000)

\* `photo-${Math.floor(Math.random() * userPhotos.length)}`
randomId(random) == PhotoId(Floor1000(random * Len(userPhotos)))

\* Experience.detectGestures(landmarks); random is the value Math.random()
\* returns, in 1/1000. The result is what the call issues: the queued
\* setTreeState / setFocusedPhotoId updates and the new targetRotation.
\* treeState and userPhotos are the values of the committed render.
detectGestures(landmarks, random) ==
  LET rule == GestureRule(landmarks)
      handCenter == landmarks[9]
  IN
  [tree |->
     IF rule = "FIST" THEN FistUpdates
     ELSE IF rule = "OPEN" THEN OpenUpdates
     ELSE IF rule = "PINCH" /\ PinchApplies THEN <<SetValue(FOCUS)>>
     ELSE <<>>,
   focus |->
     IF rule = "PINCH" /\ PinchApplies THEN <<randomId(random)>> ELSE <<>>,
   rotation |->
     IF treeState # TREE_SHAPE
     THEN [x |-> (handCenter.y - 50) * 3, y |-> (handCenter.x - 50) * 3]
     ELSE [x |-> 0, y |-> 0]]

\* mutant of FrameGate: no comparison with the last processed timestamp
FrameGateAnyTime ==
  /\ visionEnabled
  /\ handLandmarkerRef # 0
  /\ videoRef
  /\ video.readyState >= 2
  /\ ~video.paused
  /\ video.videoWidth > 0
  /\ video.videoHeight > 0

\* the validation in front of detectForVideo in Experience.useFrame
FrameGate ==
  /\ visionEnabled
  /\ handLandmarkerRef # 0
  /\ videoRef
  /\ video.readyState >= 2
  /\ ~video.paused
  /\ video.videoWidth > 0
  /\ video.videoHeight > 0
  /\ video.currentTime # lastVideoTimeRef

\* what a frame that does not reach detectGestures issues
NoGesture ==
  [tree |-> <<>>, focus |-> <<>>, rotation |-> targetRotation]

\* mutant of TryDetect: no try / catch around detectForVideo
TryDetectNoCatch(detection, random) ==
  IF detection.threw
  THEN [status |-> "threw", escaped |-> TRUE, gesture |-> NoGesture]
  ELSE IF Len(detection.landmarks) > 0
  THEN [status |-> "hand", escaped |-> FALSE,
        gesture |-> detectGestures(detection.landmarks[1], random)]
  ELSE [status |-> "nohand", escaped |-> FALSE, gesture |-> NoGesture]

\* try { results = detectForVideo(...); if (results.landmarks &&
\* results.landmarks.length > 0) detectGestures(results.landmarks[0]) }
\* catch (e) {}  -- detection.threw: detectForVideo throws.
\* escaped: the exception leaves the frame callback.
TryDetect(detection, random) ==
  IF detection.threw
  THEN [status |-> "threw", escaped |-> FALSE, gesture |-> NoGesture]
  ELSE IF Len(detection.landmarks) > 0
  THEN [status |-> "hand", escaped |-> FALSE,
        gesture |-> detectGestures(detection.landmarks[1], random)]
  ELSE [status |-> "nohand", escaped |-> FALSE, gesture |-> NoGesture]

\* last value handed to setFocusedPhotoId in a batch, or the previous one
ApplyFocusUpdates(prev, queue) ==
  IF queue = <<>> THEN prev ELSE queue[Len(queue)]

\* ------------------------------------------------------ frame callbacks
\* Every useFrame callback is an action of its own; each reads the props of
\* the committed render. ticks counts the animation callbacks that ran.

\* Experience.useFrame: validation, detectForVideo, detectGestures; the
\* state updates detectGestures issued are committed after the callback.
ExperienceFrame(detection, random) ==
  \E gated \in {FrameGate} :
  \E run \in {IF gated THEN TryDetect(detection, random)
               ELSE [status |-> "skipped", escaped |-> FALSE,
                     gesture |-> NoGesture]} :
  \E g \in {run.gesture} :
  /\ frameLoop = "running"
  /\ event' = Event("frame", run.status, 0,
                    IF run.status = "hand" THEN detection.landmarks ELSE <<>>)
  /\ lastVideoTimeRef' = IF gated THEN video.currentTime ELSE lastVideoTimeRef
  /\ frameLoop' = IF run.escaped THEN "crashed" ELSE "running"
  /\ targetRotation' = g.rotation
  /\ treeStateUpdates' = g.tree
  /\ Render(ApplyUpdates(treeState, g.tree),
            ApplyFocusUpdates(focusedPhotoId, g.focus), userPhotos)
  /\ UNCHANGED <<treePoint, photoTarget, photoScale, photoPosition,
                 photosData, morphVars,
                 visionVars,
                 ticks>>

\* mutant of targetMorph: every mode but SCATTERED counts as formed
targetMorphUnlessScattered(state) == IF state # SCATTERED THEN 100000 ELSE 0

\* targetFactor / targetMorph = state === TREE_SHAPE ? 1 : 0
targetMorph(state) == IF state = TREE_SHAPE THEN 100000 ELSE 0

\* Foliage.useFrame: uMorphFactor = lerp(currentFactor, targetFactor,
\* speed * delta) with speed = 2.0
FoliageFrame(delta) ==
  /\ frameLoop = "running"
  /\ ticks' = ticks + 1
  /\ event' = Event("foliage", "", delta, <<>>)
  /\ uMorphFactor' = lerp(uMorphFactor, targetMorph(treeState), 2 * delta, 600)
  /\ UNCHANGED <<appVars, photoVars, morphValue, gestureVars, visionVars,
                 frameLoop>>

\* mutant of updateInstances: speed 0.15 instead of 1.5
updateInstancesSlow(mesh, target, delta) ==
  lerp(morphValue[mesh], target, 3 * delta, 12000)

\* updateInstances(mesh, data, targetMorph, time, delta): morphValue =
\* lerp(morphValue, targetMorph, speed * delta) with speed = 1.5
updateInstances(mesh, target, delta) ==
  lerp(morphValue[mesh], target, 3 * delta, 1200)

\* updateInstances: floatAmp = (1 - t) * 0.5, in 1/100000 scene units
floatAmp(t) == (100000 - t) \div 2

\* updateInstances: what one coordinate of an instance's position differs
\* from item.tree by, for morph value t: the rest of lerpVectors(scatter,
\* tree, t) for a scatter - tree gap (in 1/100 scene units) plus the idle
\* motion sin / cos (wave, in 1/1000) * floatAmp; in 1/100000 scene units
instanceOffset(t, gap, wave) ==
  ((100000 - t) * gap) \div 100 + (wave * floatAmp(t)) \div 1000

\* Ornaments.useFrame: updateInstances on the four ornament meshes
OrnamentsFrame(delta) ==
  /\ frameLoop = "running"
  /\ ticks' = ticks + 1
  /\ event' = Event("ornaments", "", delta, <<>>)
  /\ morphValue' =
       [m \in Meshes |->
          IF m \in {"gold", "ceramic", "satin", "boxes"}
          THEN updateInstances(m, targetMorph(treeState), delta)
          ELSE morphValue[m]]
  /\ UNCHANGED <<appVars, photoVars, uMorphFactor, gestureVars, visionVars,
                 frameLoop>>

\* Gifts.useFrame: morphValue = lerp(morphValue, targetMorph, 1.5 * delta)
GiftsFrame(delta) ==
  /\ frameLoop = "running"
  /\ ticks' = ticks + 1
  /\ event' = Event("gifts", "", delta, <<>>)
  /\ morphValue' =
       [morphValue EXCEPT !["gifts"] =
          lerp(morphValue["gifts"], targetMorph(treeState), 3 * delta, 1200)]
  /\ UNCHANGED <<appVars, photoVars, uMorphFactor, gestureVars, visionVars,
                 frameLoop>>

\* mutant of PhotoBranch: the focus branch tests isFocused alone
PhotoBranchFocusedOnly(index) ==
  IF focusedPhotoId = PhotoId(index) THEN "FOCUS"
  ELSE IF treeState = TREE_SHAPE THEN "TREE"
  ELSE "SCATTER"

\* PhotoFrame.useFrame: which target the frame of a photo index lerps to
PhotoBranch(index) ==
  IF treeState = FOCUS /\ focusedPhotoId = PhotoId(index) THEN "FOCUS"
  ELSE IF treeState = TREE_SHAPE THEN "TREE"
  ELSE "SCATTER"

\* targetScale of the branch: 2.0 in focus, data.scale otherwise
PhotoTargetScale(index) ==
  IF PhotoBranch(index) = "FOCUS" THEN 200000 ELSE photosData[index].scale

\* the camera of the scene: position (0, 2, 25) looking at the orbit target
\* (0, 0, 0); y and z in 1/100, the unit forward vector in 1/1000
cameraPosition == [y |-> 200, z |-> 2500]
cameraForward == [y |-> -80, z |-> -997]

\* targetPos of the branch (y and z, 1/100), with the parent group
\* unrotated so that worldToLocal leaves the point as it is: the point at
\* focusDistance in front of the camera in focus, data.tree in the tree,
\* data.scatter plus the floating noise sin(time * speed) * 0.5 on y
\* otherwise; wave is the sine in 1/1000
PhotoTargetPos(index, wave) ==
  IF PhotoBranch(index) = "FOCUS"
  THEN [y |-> cameraPosition.y
                + Round(cameraForward.y * focusDistance[index], 1000),
        z |-> cameraPosition.z
                + Round(cameraForward.z * focusDistance[index], 1000)]
  ELSE IF PhotoBranch(index) = "TREE" THEN photosData[index].tree
  ELSE [y |-> photosData[index].scatter.y + wave \div 20,
        z |-> photosData[index].scatter.z]

\* mutant of photoLerp: the group is put on its target at once
photoLerpSnap(from, to) == to

\* Vector3.lerp(target, lerpFactor) with lerpFactor = 0.1, per component
photoLerp(from, to) == lerp(from, to, 1, 10)

\* PhotoFrame.useFrame of the photo at index: the branch is chosen and the
\* group moves lerpFactor = 0.1 of the way to its target
PhotoFrameFrame(index, wave) ==
  /\ frameLoop = "running"
  /\ index \in PhotoIndexes(userPhotos)
  /\ ticks' = ticks + 1
  /\ event' = Event("photo", "", index, <<wave>>)
  /\ photoTarget' = [photoTarget EXCEPT ![index] = PhotoBranch(index)]
  /\ photoPosition' =
       [photoPosition EXCEPT ![index] =
          [y |-> photoLerp(photoPosition[index].y,
                           PhotoTargetPos(index, wave).y),
           z |-> photoLerp(photoPosition[index].z,
                           PhotoTargetPos(index, wave).z)]]
  /\ photoScale' = [photoScale EXCEPT ![index] =
                      photoLerp(photoScale[index], PhotoTargetScale(index))]
  /\ UNCHANGED <<appVars, focusDistance, wheelListeners, zoomStart, zoomSum,
                 treePoint, photosData, morphVars, gestureVars, visionVars,
                 frameLoop>>

\* --------------------------------------------------------- utils/math
\* mutant of getTreePoint: the radius does not shrink with the height
getTreePointNoTaper(height, radius, yOffset, h, rnd, dir) ==
  LET y == h * height + yOffset * 100
      maxR == radius * 1000
      r == (maxR * (20 + 8 * Sqrt(rnd))) \div 100
  IN [x |-> (r * dir[1]) \div dir[3], y |-> y, z |-> (r * dir[2]) \div dir[3]]

\* getTreePoint(height, radius, yOffset) with the values the random source
\* returns: h and rnd are Math.random() in 1/100, dir = <<c, s, d>> is the
\* direction (cos theta, sin theta) = (c / d, s / d) of the random angle.
\* y in 1/100, x and z in 1/1000 scene units.
getTreePoint(height, radius, yOffset, h, rnd, dir) ==
  LET y == h * height + yOffset * 100
      maxR == radius * (100 - h) * 10
      r == (maxR * (20 + 8 * Sqrt(rnd))) \div 100
  IN [x |-> (r * dir[1]) \div dir[3], y |-> y, z |-> (r * dir[2]) \div dir[3]]

\* a data generator calls getTreePoint
callGetTreePoint(height, radius, yOffset, h, rnd, dir) ==
  /\ event' = Event("getTreePoint", "", h, <<>>)
  /\ \E p \in {getTreePoint(height, radius, yOffset, h, rnd, dir)} :
       treePoint' = [called |-> TRUE, height |-> height, radius |-> radius,
                     yOffset |-> yOffset, x |-> p.x, y |-> p.y, z |-> p.z]
  /\ UNCHANGED <<appVars, focusDistance, wheelListeners, zoomStart, zoomSum,
                 photoTarget, photoScale, photoPosition, photosData,
                 morphVars, gestureVars,
                 visionVars, frameLoop, ticks>>

\* --------------------------------------------------------------- inputs
\* a hand whose index and middle tips are a/100 from the wrist, ring and
\* pinky tips b/100, thumb tip p/100 from the index tip, landmark 9 at c
HandSample(a, b, p, c) ==
  (0 :> Point(50, 50, 0)) @@
  (4 :> Point(50 + p, 50 - a, 0)) @@
  (8 :> Point(50, 50 - a, 0)) @@
  (9 :> Point(c[1], c[2], 0)) @@
  (12 :> Point(50 + (3 * a) \div 5, 50 - (4 * a) \div 5, 0)) @@
  (16 :> Point(50, 50, b)) @@
  (20 :> Point(50 - b, 50, 0))

TipDistances == {<<5, 5>>, <<5, 25>>, <<25, 25>>, <<35, 35>>, <<50, 50>>}
PinchDistances == {2, 5}
HandCenters == {<<20, 100>>, <<100, 50>>}

HandSamples ==
  {HandSample(t[1], t[2], p, c) :
     t \in TipDistances, p \in PinchDistances, c \in HandCenters}

\* results of detectForVideo: it throws, or returns zero or one hand
Detections ==
  {[threw |-> TRUE, landmarks |-> <<>>], [threw |-> FALSE, landmarks |-> <<>>]}
  \cup {[threw |-> FALSE, landmarks |-> <<h>>] : h \in HandSamples}

\* values of Math.random(), in 1/1000
Randoms == {0, 999}
\* frame deltas, in 1/600 s: 1/60 s, 0.1 s and a 1 s gap
FrameDeltas == {10, 60, 600}
\* WheelEvent.deltaY
WheelDeltas == {-500, 500, -2000}
\* data.scale = randomRange(0.8, 1.2): one value of the range
DataScales == {120000}
\* tree and scatter positions of a photo (y, z in 1/100): a point of
\* getTreePoint(10, 5, -5) moved 0.8 outwards, a point in the ball of
\* getScatterPoint(18)
DataPlaces ==
  {[tree |-> [y |-> -300, z |-> 410], scatter |-> [y |-> 900, z |-> -1200]]}
\* sin(time * data.speed) in 1/1000 at the time of a photo frame
PhotoWaves == {0}

\* ---------------------------------------------------------- specification
NoHand == [threw |-> FALSE, landmarks |-> <<>>]

\* Experience.useFrame; detectForVideo has a result only in a frame that
\* passes the validation
Frame ==
  \E detection \in (IF FrameGate THEN Detections ELSE {NoHand}) :
    \E random \in Randoms : ExperienceFrame(detection, random)

Foliage == ticks < MaxTicks /\ \E delta \in FrameDeltas : FoliageFrame(delta)

Ornaments ==
  ticks < MaxTicks /\ \E delta \in FrameDeltas : OrnamentsFrame(delta)

Gifts == ticks < MaxTicks /\ \E delta \in FrameDeltas : GiftsFrame(delta)

PhotoFrame ==
  /\ ticks < MaxTicks
  /\ \E index \in 0..(MaxPhotos - 1), wave \in PhotoWaves :
       PhotoFrameFrame(index, wave)

Upload ==
  \E n \in 1..MaxPhotos :
    \E scales \in [0..(Len(userPhotos) + n - 1) -> DataScales],
       places \in [0..(Len(userPhotos) + n - 1) -> DataPlaces] :
      handlePhotoUpload(n, scales, places)

Click == \E index \in 0..(MaxPhotos - 1) : handlePhotoClick(index)

Wheel == \E deltaY \in WheelDeltas : handleWheel(deltaY)

\* a long stroke of the wheel away from the photo
StrokeDeltas == {1000}
WheelStroke == \E deltaY \in StrokeDeltas : handleWheel(deltaY)

FilesetSettled == \E i \in Setups, ok \in BOOLEAN : filesetSettled(i, ok)

LandmarkerSettled ==
  \E i \in Setups, ok \in BOOLEAN, hasMedia \in BOOLEAN :
    landmarkerSettled(i, ok, hasMedia)

MediaSettled == \E i \in Setups, ok \in BOOLEAN : mediaSettled(i, ok)

VideoLoadedMetadata == \E playOk \in BOOLEAN : videoLoadedMetadata(playOk)

\* the whole program from its start
Next ==
  \/ toggleState
  \/ Upload
  \/ Click
  \/ Wheel
  \/ toggleVision
  \/ FilesetSettled
  \/ LandmarkerSettled
  \/ MediaSettled
  \/ VideoLoadedMetadata
  \/ videoLoadedData
  \/ videoTimeUpdate
  \/ Frame
  \/ Foliage
  \/ Ornaments
  \/ Gifts
  \/ PhotoFrame

Spec == Init /\ [][Next]_vars

\* The state after gesture mode was enabled once and its setup ran to the
\* end: landmarker published, camera stream attached and playing.
InitTracking ==
  /\ treeState = SCATTERED
  /\ userPhotos = <<>>
  /\ focusedPhotoId = NULL
  /\ visionEnabled = TRUE
  /\ treeStateUpdates = <<>>
  /\ focusDistance = <<>>
  /\ wheelListeners = {}
  /\ zoomStart = 1500
  /\ zoomSum = 0
  /\ treePoint = NoTreePoint
  /\ photoTarget = <<>>
  /\ photoScale = <<>>
  /\ photoPosition = <<>>
  /\ photosData = <<>>
  /\ uMorphFactor = 0
  /\ morphValue = [m \in Meshes |-> 0]
  /\ targetRotation = [x |-> 0, y |-> 0]
  /\ lastVideoTimeRef = -1
  /\ handLandmarkerRef = 1
  /\ videoRef = TRUE
  /\ video = [srcObject |-> 1, readyState |-> 2, paused |-> FALSE,
              videoWidth |-> 1280, videoHeight |-> 720, currentTime |-> 0,
              onloadedmetadata |-> 1]
  /\ nSetups = 1
  /\ setupPc = [i \in Setups |-> IF i = 1 THEN "done" ELSE "unstarted"]
  /\ isMounted = [i \in Setups |-> i = 1]
  /\ landmarker = [i \in Setups |-> IF i = 1 THEN "open" ELSE "none"]
  /\ stream = [i \in Setups |-> IF i = 1 THEN "live" ELSE "none"]
  /\ frameLoop = "running"
  /\ event = Event("loadeddata", "", 0, <<>>)
  /\ ticks = 0

\* Gesture classification: hand samples arrive in render frames while the
\* user also uses the toggle button, uploads and clicks photos.
NextGesture ==
  \/ toggleState
  \/ Upload
  \/ Click
  \/ videoTimeUpdate
  \/ Frame

SpecGesture == InitTracking /\ [][NextGesture]_vars

\* Gesture mode being switched on and off, its asynchronous setup, the
\* video element and render frames.
NextVision ==
  \/ Upload
  \/ toggleVision
  \/ FilesetSettled
  \/ LandmarkerSettled
  \/ MediaSettled
  \/ VideoLoadedMetadata
  \/ videoLoadedData
  \/ videoTimeUpdate
  \/ Frame

SpecVision == Init /\ [][NextVision]_vars

\* Morph clocks: frames of any delta and mode changes from the UI.
NextMorph ==
  \/ toggleState
  \/ Upload
  \/ Click
  \/ Foliage
  \/ Ornaments
  \/ Gifts

SpecMorph == Init /\ [][NextMorph]_vars

\* Photo frames: photos, focus entry by click, exit by the toggle, wheel
\* events and the frame callbacks of the photos.
NextFocus ==
  \/ toggleState
  \/ Upload
  \/ Click
  \/ WheelStroke
  \/ PhotoFrame

SpecFocus == Init /\ [][NextFocus]_vars

\* Zoom distance: focus entry by click or pinch, exit by the toggle or by a
\* fist / open-hand gesture, wheel events.
NextZoom ==
  \/ toggleState
  \/ Upload
  \/ Click
  \/ Wheel
  \/ videoTimeUpdate
  \/ Frame

SpecZoom == InitTracking /\ [][NextZoom]_vars

\* The state after two photos were uploaded in one file selection: both
\* PhotoFrames are mounted with the default transform of a new group.
InitPhotos ==
  /\ treeState = SCATTERED
  /\ userPhotos = <<1, 2>>
  /\ focusedPhotoId = NULL
  /\ visionEnabled = FALSE
  /\ treeStateUpdates = <<>>
  /\ focusDistance = [k \in 0..1 |-> 1500]
  /\ wheelListeners = {}
  /\ zoomStart = 1500
  /\ zoomSum = 0
  /\ treePoint = NoTreePoint
  /\ photoTarget = [k \in 0..1 |-> "NONE"]
  /\ photoScale = [k \in 0..1 |-> 100000]
  /\ photoPosition = [k \in 0..1 |-> [y |-> 0, z |-> 0]]
  /\ \E scales \in [0..1 -> DataScales], places \in [0..1 -> DataPlaces] :
       photosData = [k \in 0..1 |-> [id |-> PhotoId(k), url |-> k + 1,
                                      scale |-> scales[k],
                                      tree |-> places[k].tree,
                                      scatter |-> places[k].scatter]]
  /\ uMorphFactor = 0
  /\ morphValue = [m \in Meshes |-> 0]
  /\ targetRotation = [x |-> 0, y |-> 0]
  /\ lastVideoTimeRef = -1
  /\ handLandmarkerRef = 0
  /\ videoRef = FALSE
  /\ video = EmptyVideo
  /\ nSetups = 0
  /\ setupPc = [i \in Setups |-> "unstarted"]
  /\ isMounted = [i \in Setups |-> FALSE]
  /\ landmarker = [i \in Setups |-> "none"]
  /\ stream = [i \in Setups |-> "none"]
  /\ frameLoop = "running"
  /\ event = Event("upload", "", 2, <<>>)
  /\ ticks = 0

\* sin(time * data.speed) in 1/1000 while the photos float
IdleWaves == {-1000, 1000}

PhotoIdle ==
  /\ ticks < MaxTicks
  /\ \E index \in 0..(MaxPhotos - 1), wave \in IdleWaves :
       PhotoFrameFrame(index, wave)

\* Photo transforms: two mounted photos, mode changes by the toggle and by
\* clicks, focus changes, wheel strokes, and the photos' frame callbacks
\* at any phase of the floating motion.
NextPhoto ==
  \/ toggleState
  \/ Click
  \/ WheelStroke
  \/ PhotoIdle

SpecPhoto == InitPhotos /\ [][NextPhoto]_vars

\* wheel events of several sizes in both directions
ZoomDeltas == {-2000, -1000, -500, -250, 250, 500, 1000}
WheelZoom == \E deltaY \in ZoomDeltas : handleWheel(deltaY)

\* Wheel zoom: photos, focus entry by click, exit by the toggle, and wheel
\* events of several sizes.
NextWheel ==
  \/ toggleState
  \/ Upload
  \/ Click
  \/ WheelZoom

SpecWheel == Init /\ [][NextWheel]_vars

\* scatter - tree gaps of a coordinate (1/100) and values of sin / cos
\* (1/1000)
Gaps == {-3000, 0, 1850}
Waves == {-1000, 0, 707, 1000}

\* the mode is switched to TREE_SHAPE before the first frame
SwitchToFormed == ticks = 0 /\ treeState = SCATTERED /\ toggleState
\* Ornaments.useFrame at 60 frames per second, mode TREE_SHAPE
SteadyFrame ==
  treeState = TREE_SHAPE /\ ticks < ConvergeFrames /\ OrnamentsFrame(10)

\* Convergence run: the mode is switched to TREE_SHAPE, then the ornaments
\* are animated frame after frame with delta = 1/60 s.
NextConverge ==
  \/ SwitchToFormed
  \/ SteadyFrame

SpecConverge == Init /\ [][NextConverge]_vars

\* Gesture mode with failing resources: the setup steps resolve or reject
\* while the user keeps using the toggle button, uploads and photo clicks.
NextFallback ==
  \/ toggleState
  \/ Upload
  \/ Click
  \/ toggleVision
  \/ FilesetSettled
  \/ LandmarkerSettled
  \/ MediaSettled
  \/ VideoLoadedMetadata
  \/ videoLoadedData
  \/ videoTimeUpdate
  \/ Frame

SpecFallback == Init /\ [][NextFallback]_vars

\* arguments of getTreePoint: heights, base radii, y offsets
Heights == {10, 12}
Radii == {0, 5, 10}
YOffsets == {-6, -5, 0, 3}
\* Math.random() for the height, in 1/100
HeightRandoms == {0, 10, 50, 90}
\* Math.random() for the radius, in 1/100 (squares, so the root is exact)
RadiusRandoms == {0, 25, 81}
\* (cos theta, sin theta) as <<c, s, d>> with (c / d)^2 + (s / d)^2 = 1
Directions == {<<1, 0, 1>>, <<0, -1, 1>>, <<3, 4, 5>>, <<-4, 3, 5>>}

GetTreePoint ==
  \E height \in Heights, radius \in Radii, yOffset \in YOffsets :
    \E h \in HeightRandoms, rnd \in RadiusRandoms, dir \in Directions :
      callGetTreePoint(height, radius, yOffset, h, rnd, dir)

\* Tree points: getTreePoint is called with any arguments and any values
\* of the random source.
SpecTreePoint == Init /\ [][GetTreePoint]_vars

\* ------------------------------------------------------------ properties
\* the step handled a frame in which detectGestures got a hand sample
HandFrame(e) == e.type = "frame" /\ e.status = "hand"
\* average tip-to-wrist distance and pinch distance of that sample
SampleAvg(e) == avgDistToWrist(e.landmarks[1])
SamplePinch(e) == pinchDist(e.landmarks[1])
\* the sample is neither a fist nor an open hand
Ambiguous(e) == SampleAvg(e) >= 1500 /\ SampleAvg(e) <= 3500
\* rule 3 applies to the sample in the state the frame starts from
PinchTakes(e) ==
  Ambiguous(e) /\ SamplePinch(e) < 500 /\ treeState # FOCUS
  /\ Len(userPhotos) > 0

\* C1: a frame whose hand sample has an average tip-to-wrist distance below
\* 0.15 ends with mode TREE_SHAPE, whatever the mode before, the pinch
\* distance and the number of photos.
C1_FistFormsTree ==
  [][(HandFrame(event') /\ SampleAvg(event') < 1500)
       => treeState' = TREE_SHAPE]_vars

\* C1 witness: a fist that is also a pinch, with photos present and a photo
\* focused before, has just switched the mode to TREE_SHAPE.
C1_Witness ==
  /\ HandFrame(event)
  /\ SampleAvg(event) < 1500
  /\ SamplePinch(event) < 500
  /\ Len(userPhotos) > 0
  /\ focusedPhotoId # NULL
  /\ treeStateUpdates = <<SetValue(TREE_SHAPE)>>
  /\ treeState = TREE_SHAPE

\* C2: a frame whose hand sample has an average above 0.35 ends with mode
\* SCATTERED; a sample whose average is exactly 0.15 or exactly 0.35 is
\* handled by rules 3 and 4 only (Focus on an applicable pinch, otherwise
\* the mode is kept).
C2_OpenHandScatters ==
  [][HandFrame(event') =>
       /\ (SampleAvg(event') > 3500 => treeState' = SCATTERED)
       /\ (SampleAvg(event') \in {1500, 3500} =>
             treeState' = IF PinchTakes(event') THEN FOCUS ELSE treeState)]_vars

\* C2 witness: an open hand with a pinch, after a photo had been focused,
\* has just switched the mode to SCATTERED.
C2_Witness ==
  /\ HandFrame(event)
  /\ SampleAvg(event) > 3500
  /\ SamplePinch(event) < 500
  /\ focusedPhotoId # NULL
  /\ treeStateUpdates = <<SetValue(SCATTERED)>>
  /\ treeState = SCATTERED

\* C3: a frame whose sample is ambiguous with a pinch below 0.05, started
\* outside Focus with at least one photo, ends in Focus with focusedPhotoId
\* the id of an existing photo.
C3_PinchFocusesPhoto ==
  [][(HandFrame(event') /\ PinchTakes(event')) =>
       /\ treeState' = FOCUS
       /\ \E k \in 0..(Len(userPhotos) - 1) : focusedPhotoId' = PhotoId(k)]_vars

\* C3 witness: a pinch has just put the second of two photos in focus.
C3_Witness ==
  /\ HandFrame(event)
  /\ Ambiguous(event)
  /\ SamplePinch(event) < 500
  /\ treeStateUpdates = <<SetValue(FOCUS)>>
  /\ treeState = FOCUS
  /\ Len(userPhotos) = 2
  /\ focusedPhotoId = PhotoId(1)

\* C4: a frame whose sample is ambiguous and to which rule 3 does not apply
\* (no pinch, or already Focus, or no photo) leaves the mode and
\* focusedPhotoId as they were.
C4_AmbiguousHoldsMode ==
  [][(HandFrame(event') /\ Ambiguous(event') /\ ~PinchTakes(event')) =>
       /\ treeState' = treeState
       /\ focusedPhotoId' = focusedPhotoId]_vars

\* C4 witness: a pinch sample was handled while already in Focus, with two
\* photos to choose from; nothing was written.
C4_Witness ==
  /\ HandFrame(event)
  /\ Ambiguous(event)
  /\ SamplePinch(event) < 500
  /\ treeState = FOCUS
  /\ Len(userPhotos) = 2
  /\ focusedPhotoId = PhotoId(0)
  /\ treeStateUpdates = <<>>

\* C5: a fist sample handled outside TREE_SHAPE issues exactly one mode
\* write and ends in TREE_SHAPE; a fist sample handled in TREE_SHAPE issues
\* no mode write and stays in TREE_SHAPE. Hence repeated fist samples keep
\* the mode after the first one, without further writes.
C5_FistIdempotent ==
  [][(HandFrame(event') /\ SampleAvg(event') < 1500) =>
       /\ treeState' = TREE_SHAPE
       /\ treeStateUpdates' =
            IF treeState = TREE_SHAPE THEN <<>>
            ELSE <<SetValue(TREE_SHAPE)>>]_vars

\* C5 witness: a fist sample of a later video frame was handled in
\* TREE_SHAPE and wrote nothing.
C5_Witness ==
  /\ HandFrame(event)
  /\ SampleAvg(event) < 1500
  /\ lastVideoTimeRef >= 1
  /\ treeState = TREE_SHAPE
  /\ treeStateUpdates = <<>>

\* some condition of the frame validation other than the timestamp fails
FeedUnavailable ==
  \/ ~visionEnabled
  \/ handLandmarkerRef = 0
  \/ ~videoRef
  \/ video.readyState < 2
  \/ video.paused
  \/ video.videoWidth = 0
  \/ video.videoHeight = 0

\* C6: a frame run while gesture mode is off, the landmarker is missing or
\* the video is not ready, or in which detection returns no hand or throws,
\* leaves mode and focusedPhotoId unchanged; no frame lets an exception out
\* of the callback, so the frame loop keeps running.
C6_FailureKeepsMode ==
  [][event'.type = "frame" =>
       /\ frameLoop' = "running"
       /\ (FeedUnavailable \/ event'.status \in {"skipped", "nohand", "threw"})
            => (treeState' = treeState /\ focusedPhotoId' = focusedPhotoId)]_vars

\* C6 witness: detectForVideo threw in a frame after a gesture had set the
\* mode to TREE_SHAPE; the mode is kept and the loop runs.
C6_Witness ==
  /\ event.type = "frame"
  /\ event.status = "threw"
  /\ treeState = TREE_SHAPE
  /\ lastVideoTimeRef >= 1
  /\ frameLoop = "running"

\* C7 (as claimed): the morph progress of every group is in [0, 1].
C7_ProgressInRange ==
  /\ uMorphFactor >= 0 /\ uMorphFactor <= 100000
  /\ \A m \in Meshes : morphValue[m] >= 0 /\ morphValue[m] <= 100000

Abs(n) == IF n < 0 THEN -n ELSE n

\* before -> after moves toward target without passing it
Approaches(before, after, target) ==
  /\ Abs(target - after) <= Abs(target - before)
  /\ before <= target => after <= target
  /\ before >= target => after >= target

\* C8 (as claimed): every frame of a group moves its progress toward the
\* target of that frame without passing it.
C8_ProgressApproachesTarget ==
  [][/\ event'.type = "foliage" =>
          Approaches(uMorphFactor, uMorphFactor', targetMorph(treeState))
     /\ event'.type \in {"ornaments", "gifts"} =>
          \A m \in Meshes :
            Approaches(morphValue[m], morphValue'[m], targetMorph(treeState))]_vars

\* C9: outside Focus, the frame callback of no photo takes the focus
\* branch and a wheel event changes no zoom distance, whatever
\* focusedPhotoId holds.
C9_FocusIdInertOutsideFocus ==
  [][treeState # FOCUS =>
       /\ event'.type = "photo" => photoTarget'[event'.n] # "FOCUS"
       /\ event'.type = "wheel" => focusDistance' = focusDistance]_vars

\* C9 witness: in TREE_SHAPE with photo-0 still the focused id and zoomed
\* earlier, the frame callback of photo-0 took the tree branch.
C9_Witness ==
  /\ treeState = TREE_SHAPE
  /\ focusedPhotoId = PhotoId(0)
  /\ event.type = "photo"
  /\ event.n = 0
  /\ photoTarget[0] = "TREE"
  /\ focusDistance[0] # 1500

\* the photo at index k is the focused photo in Focus mode
Focused(k, state, focusedId) == state = FOCUS /\ focusedId = PhotoId(k)

\* C10: every zoom distance is in [5, 40]; a photo that becomes the focused
\* photo in Focus mode gets distance 15; a wheel event received while a
\* photo is focused in Focus mode sets its distance to
\* clamp(distance + 0.02 * deltaY, 5, 40).
C10_ZoomBoundsAndReset ==
  [][\A k \in DOMAIN focusDistance' :
       /\ focusDistance'[k] >= 500 /\ focusDistance'[k] <= 4000
       /\ (~Focused(k, treeState, focusedPhotoId)
           /\ Focused(k, treeState', focusedPhotoId'))
            => focusDistance'[k] = 1500
       /\ (event'.type = "wheel" /\ Focused(k, treeState, focusedPhotoId))
            => focusDistance'[k] =
                 LET v == focusDistance[k] + 2 * event'.n
                 IN IF v < 500 THEN 500 ELSE IF v > 4000 THEN 4000 ELSE v]_vars

\* C10 witness: a wheel event has just driven the focused photo's distance
\* to the lower bound while the other photo keeps a zoomed distance.
C10_Witness ==
  /\ treeState = FOCUS
  /\ focusedPhotoId = PhotoId(1)
  /\ event.type = "wheel"
  /\ focusDistance[1] = 500
  /\ focusDistance[0] = 4000

\* C11: for the photo focused in Focus mode, whenever the wheel deltas
\* handled since its zoom distance was last reset or last reached a clamp
\* bound sum to 0, the zoom distance is the value it had then. (The model
\* computes on the exact 0.01 grid.)
C11_ZoomRoundTrip ==
  \A k \in wheelListeners : zoomSum = 0 => focusDistance[k] = zoomStart

\* C11 witness: a wheel event has just brought the sum of the deltas
\* handled since focus entry back to 0, and the distance back to 15.
C11_Witness ==
  /\ event.type = "wheel"
  /\ event.n = 250
  /\ wheelListeners = {1}
  /\ zoomStart = 1500
  /\ zoomSum = 0
  /\ focusDistance[1] = 1500

\* no asynchronous step of any run of setupHandTracking is pending
SetupSettled == \A i \in Setups : setupPc[i] \in {"unstarted", "done", "caught"}

\* C12: whenever gesture mode is off and no setup step is pending, no
\* camera stream acquired by a setup run is live and no landmarker created
\* by a setup run is open, whatever the order of toggles and completions.
C12_ReleasedWhenDisabled ==
  (~visionEnabled /\ SetupSettled) =>
    \A i \in Setups : stream[i] # "live" /\ landmarker[i] # "open"

\* C12 witness: getUserMedia of a run resolved after gesture mode had been
\* switched off; its tracks were stopped and its landmarker is closed.
C12_Witness ==
  /\ ~visionEnabled
  /\ SetupSettled
  /\ event.type = "media"
  /\ event.status = "resolved"
  /\ stream[event.n] = "stopped"
  /\ landmarker[event.n] = "closed"
  /\ \E i \in Setups : i # event.n /\ stream[i] = "stopped"

\* the step handled a UI action that sets the mode
ModeAction(e) == e.type \in {"toggleState", "click"}

\* C13 (as claimed): when a UI mode action and a frame with a hand sample
\* are handled one right after the other, the mode afterwards is the one
\* the UI action chose: a frame that follows the UI action keeps its mode,
\* and a UI action that follows the frame sets its own mode.
C13_UiActionWins ==
  [][/\ (ModeAction(event) /\ HandFrame(event')) => treeState' = treeState
     /\ (HandFrame(event) /\ event'.type = "toggleState")
          => treeState' = toggleStateUpdater(treeState)
     /\ (HandFrame(event) /\ event'.type = "click")
          => treeState' = FOCUS]_vars

\* C14: from mode SCATTERED and ornament morph values 0, after the switch
\* to TREE_SHAPE and 300 frames of delta = 1/60 s every ornament mesh has a
\* morph value above 0.95; and at morph value 1 every coordinate of an
\* instance position is less than 0.05 scene units from its tree position,
\* whatever the scatter position and the phase of the idle motion.
C14_ConvergesInFiveSeconds ==
  /\ ticks >= 300 =>
       \A m \in {"gold", "ceramic", "satin", "boxes"} : morphValue[m] > 95000
  /\ \A gap \in Gaps, wave \in Waves :
       /\ instanceOffset(100000, gap, wave) < 5000
       /\ instanceOffset(100000, gap, wave) > -5000

\* C14 witness: the 300th frame has run in TREE_SHAPE and the gold mesh is
\* above 0.95, short of 1.
C14_Witness ==
  /\ ticks = 300
  /\ event.type = "ornaments"
  /\ treeState = TREE_SHAPE
  /\ morphValue["gold"] > 95000
  /\ morphValue["gold"] < 100000

\* gesture mode is on and its current setup run ended in the catch block
SetupFailed == visionEnabled /\ nSetups > 0 /\ setupPc[nSetups] = "caught"

\* C15: a rejected setup step ends that run in its catch block; while
\* gesture mode is on with a failed setup no frame changes mode or
\* focusedPhotoId and the frame loop keeps running, the toggle button
\* toggles the mode and keeps focusedPhotoId, and a photo click sets Focus
\* on the clicked photo, as without gesture mode.
C15_FailedSetupKeepsUi ==
  [][/\ (event'.type \in {"fileset", "landmarker", "media"}
         /\ event'.status = "rejected")
          => /\ setupPc'[event'.n] = "caught"
             /\ treeState' = treeState
             /\ focusedPhotoId' = focusedPhotoId
             /\ frameLoop' = "running"
     /\ SetupFailed =>
          /\ event'.type = "frame" =>
               /\ treeState' = treeState
               /\ focusedPhotoId' = focusedPhotoId
               /\ frameLoop' = "running"
          /\ event'.type = "toggleState" =>
               /\ treeState' = toggleStateUpdater(treeState)
               /\ focusedPhotoId' = focusedPhotoId
          /\ event'.type = "click" =>
               /\ treeState' = FOCUS
               /\ focusedPhotoId' = PhotoId(event'.n)]_vars

\* C15 witness: getUserMedia was rejected for the second setup run, the
\* landmarker is loaded, and a photo click has then set Focus.
C15_Witness ==
  /\ SetupFailed
  /\ nSetups = 2
  /\ handLandmarkerRef = 2
  /\ stream[2] = "none"
  /\ stream[1] = "stopped"
  /\ event.type = "click"
  /\ treeState = FOCUS
  /\ focusedPhotoId = PhotoId(event.n)

\* the maximum radius the claim names, b * (1 - (y - yOffset) / h), for
\* the last getTreePoint call; in 1/1000 scene units
ClaimedMaxRadius ==
  (treePoint.radius * 1000
     * (treePoint.height * 100 - (treePoint.y - treePoint.yOffset * 100)))
  \div (treePoint.height * 100)

\* squared radial distance of the last point, in 1/1000000
RadialSquared == treePoint.x * treePoint.x + treePoint.z * treePoint.z

\* C16: the point getTreePoint(h, b, yOffset) returns has y in
\* [yOffset, yOffset + h) and a radial distance between 0.2 times and 1
\* times b * (1 - (y - yOffset) / h).
C16_TreePointBounds ==
  treePoint.called =>
    /\ treePoint.y >= treePoint.yOffset * 100
    /\ treePoint.y < (treePoint.yOffset + treePoint.height) * 100
    /\ RadialSquared <= ClaimedMaxRadius * ClaimedMaxRadius
    /\ 25 * RadialSquared >= ClaimedMaxRadius * ClaimedMaxRadius

\* C16 witness: a point high in the tree, off both axes, at less than the
\* maximum radius of its height.
C16_Witness ==
  /\ treePoint.called
  /\ treePoint.radius = 10
  /\ treePoint.y = 480
  /\ treePoint.x < 0
  /\ treePoint.z > 0
  /\ RadialSquared < ClaimedMaxRadius * ClaimedMaxRadius
  /\ 25 * RadialSquared > ClaimedMaxRadius * ClaimedMaxRadius

\* value + (target - value) * rate * delta for target 1 in TREE_SHAPE and
\* target 0 in every other mode; rate as num / den per 1/600 s of delta
StepTowardModeTarget(value, num, den, delta) ==
  LET goal == IF treeState = TREE_SHAPE THEN 100000 ELSE 0
      total == (den - num * delta) * value + num * delta * goal
  IN (2 * total + den) \div (2 * den)

\* C17: every frame of the foliage, of the ornament meshes and of the
\* gifts moves the group's morph value toward 1 when the mode is
\* TREE_SHAPE and toward 0 in every other mode, FOCUS included.
C17_MorphTargetByMode ==
  [][/\ event'.type = "foliage" =>
          uMorphFactor' = StepTowardModeTarget(uMorphFactor, 2, 600, event'.n)
     /\ event'.type = "ornaments" =>
          \A m \in {"gold", "ceramic", "satin", "boxes"} :
            morphValue'[m] = StepTowardModeTarget(morphValue[m], 3, 1200, event'.n)
     /\ event'.type = "gifts" =>
          morphValue'["gifts"]
            = StepTowardModeTarget(morphValue["gifts"], 3, 1200, event'.n)]_vars

\* C17 witness: in FOCUS an ornament frame has moved the ornament meshes
\* back toward 0 from the value they and the gifts had reached in
\* TREE_SHAPE.
C17_Witness ==
  /\ treeState = FOCUS
  /\ event.type = "ornaments"
  /\ morphValue["gold"] > 0
  /\ morphValue["gold"] < morphValue["gifts"]
  /\ morphValue["gifts"] < 100000
  /\ uMorphFactor = 0

\* C18 (as claimed): after every step, in TREE_SHAPE the rotation target
\* is (0, 0); and after a frame with a hand sample that ends in another
\* mode it is ((handCenter.y - 0.5) * 3, (handCenter.x - 0.5) * 3) of the
\* sample's landmark 9, each component within [-1.5, 1.5].
C18_RotationTargetByMode ==
  [][/\ treeState' = TREE_SHAPE => targetRotation' = [x |-> 0, y |-> 0]
     /\ (HandFrame(event') /\ treeState' # TREE_SHAPE) =>
          /\ targetRotation'.x = (event'.landmarks[1][9].y - 50) * 3
          /\ targetRotation'.y = (event'.landmarks[1][9].x - 50) * 3
          /\ targetRotation'.x >= -150 /\ targetRotation'.x <= 150
          /\ targetRotation'.y >= -150 /\ targetRotation'.y <= 150]_vars

\* the frame called detectForVideo
Detected(e) == e.type = "frame" /\ e.status \in {"hand", "nohand", "threw"}

\* C19: a frame calls detectForVideo only if the video's currentTime
\* differs from the last processed timestamp, and then records that
\* currentTime, also when the detection throws; a frame that finds the
\* recorded timestamp unchanged does not detect, so of two frames in a row
\* the second never submits the video frame the first one submitted.
C19_DetectOncePerVideoFrame ==
  [][event'.type = "frame" =>
       /\ Detected(event') =>
            /\ video.currentTime # lastVideoTimeRef
            /\ lastVideoTimeRef' = video.currentTime
       /\ video.currentTime = lastVideoTimeRef => ~Detected(event')
       /\ Detected(event) => ~Detected(event')]_vars

\* C19 witness: with gesture mode on, the landmarker loaded and the video
\* playing, a frame was skipped because its timestamp had been processed.
C19_Witness ==
  /\ event.type = "frame"
  /\ event.status = "skipped"
  /\ ~FeedUnavailable
  /\ video.currentTime >= 1
  /\ lastVideoTimeRef = video.currentTime

\* some group is between the two shapes
MidMorph ==
  \/ uMorphFactor > 0 /\ uMorphFactor < 100000
  \/ \E m \in Meshes : morphValue[m] > 0 /\ morphValue[m] < 100000

\* C20 (as claimed): an upload handled in TREE_SHAPE, in FOCUS or while a
\* group is mid-morph leaves every new photo group at the scale its frame
\* callback aims at in the current mode (2.0 for the focused photo,
\* data.scale otherwise), and leaves the morph values of foliage,
\* ornaments and gifts as they were.
C20_NewPhotosStartInPlace ==
  [][(event'.type = "upload" /\ (treeState # SCATTERED \/ MidMorph)) =>
       /\ \A k \in DOMAIN photoScale' :
            k \notin DOMAIN photoScale =>
              photoScale'[k] =
                IF treeState' = FOCUS /\ focusedPhotoId' = PhotoId(k)
                THEN 200000 ELSE photosData'[k].scale
       /\ uMorphFactor' = uMorphFactor
       /\ morphValue' = morphValue]_vars

\* after is before moved one tenth of the way to target, to the nearest
\* unit of the fixed-point grid
TenthOfTheWay(before, after, target) ==
  Abs(10 * (after - before) - (target - before)) <= 5

\* the target scale the claim names for the photo at index k
ClaimedScale(k) ==
  IF Focused(k, treeState, focusedPhotoId) THEN 200000
  ELSE photosData[k].scale

\* the target position the claim names for the photo at index k: locked to
\* the camera at the zoom distance when it is the focused photo in Focus,
\* the stored tree position in TREE_SHAPE, the scatter position plus the
\* idle motion otherwise
ClaimedPosition(k, wave) ==
  IF Focused(k, treeState, focusedPhotoId)
  THEN [y |-> cameraPosition.y
                + Round(cameraForward.y * focusDistance[k], 1000),
        z |-> cameraPosition.z
                + Round(cameraForward.z * focusDistance[k], 1000)]
  ELSE IF treeState = TREE_SHAPE THEN photosData[k].tree
  ELSE [y |-> photosData[k].scatter.y + wave \div 20,
        z |-> photosData[k].scatter.z]

\* C21: the frame callback of a photo moves its scale and its position one
\* tenth of the remaining way to the target of the current mode (focus
\* transform with scale 2.0 for the focused photo in Focus, tree transform
\* in TREE_SHAPE, scatter transform plus idle motion otherwise) and leaves
\* the other photos alone; no other step (toggle, click, wheel) changes the
\* transform of any photo.
C21_PhotoMovesTenthPerFrame ==
  [][/\ event'.type = "photo" =>
          /\ TenthOfTheWay(photoScale[event'.n], photoScale'[event'.n],
                           ClaimedScale(event'.n))
          /\ TenthOfTheWay(photoPosition[event'.n].y,
                           photoPosition'[event'.n].y,
                           ClaimedPosition(event'.n, event'.landmarks[1]).y)
          /\ TenthOfTheWay(photoPosition[event'.n].z,
                           photoPosition'[event'.n].z,
                           ClaimedPosition(event'.n, event'.landmarks[1]).z)
          /\ \A k \in DOMAIN photoScale \ {event'.n} :
               photoScale'[k] = photoScale[k]
               /\ photoPosition'[k] = photoPosition[k]
     /\ event'.type # "photo" =>
          \A k \in DOMAIN photoScale :
            photoScale'[k] = photoScale[k]
            /\ photoPosition'[k] = photoPosition[k]]_vars

\* C21 witness: in Focus, after a wheel stroke moved the zoom distance of
\* the focused photo, its frame callback has run and left it part of the
\* way to the focus transform, while the other photo had floated towards
\* its scatter position.
C21_Witness ==
  /\ treeState = FOCUS
  /\ event.type = "photo"
  /\ focusedPhotoId = PhotoId(event.n)
  /\ photoTarget[event.n] = "FOCUS"
  /\ focusDistance[event.n] = 3500
  /\ photoScale[event.n] > 100000 /\ photoScale[event.n] < 200000
  /\ photoPosition[event.n].z < 0
  /\ \E k \in DOMAIN photoTarget :
       k # event.n /\ photoTarget[k] = "SCATTER" /\ photoPosition[k].y # 0

\* the focused id names a photo entity that exists
FocusTargetExists(state, focusedId, photos, data) ==
  state = FOCUS =>
    /\ focusedId # NULL
    /\ \E k \in PhotoIndexes(photos) :
         /\ focusedId = PhotoId(k)
         /\ k \in DOMAIN data
         /\ data[k].id = focusedId

\* C22: after every step (upload, click, toggle, gesture sample), if the
\* mode is Focus then focusedPhotoId is not null and is the id of a photo
\* that exists; an upload keeps the earlier photos at their indexes, so
\* every id keeps the image URL it referred to.
C22_ValidFocusTarget ==
  [][/\ FocusTargetExists(treeState', focusedPhotoId', userPhotos',
                          photosData')
     /\ event'.type = "upload" =>
          \A k \in PhotoIndexes(userPhotos) :
            /\ userPhotos'[k + 1] = userPhotos[k + 1]
            /\ photosData'[k].id = photosData[k].id
            /\ photosData'[k].url = photosData[k].url]_vars

\* C22 witness: a second photo was uploaded while the first one was the
\* focused photo in Focus mode.
C22_Witness ==
  /\ treeState = FOCUS
  /\ event.type = "upload"
  /\ focusedPhotoId = PhotoId(0)
  /\ Len(userPhotos) = 2
  /\ photosData[0].url = userPhotos[1]

\* the transition function the claim gives for the toggle button
ClaimedToggle(mode) ==
  IF mode = TREE_SHAPE THEN SCATTERED
  ELSE IF mode \in {SCATTERED, FOCUS} THEN TREE_SHAPE
  ELSE mode

\* C23: a press of the toggle button takes TREE_SHAPE to SCATTERED and
\* SCATTERED and FOCUS to TREE_SHAPE; the new mode is never FOCUS;
\* focusedPhotoId is left as it was; and from TREE_SHAPE or SCATTERED a
\* second press leads back to the starting mode.
C23_ToggleFunction ==
  [][event'.type = "toggleState" =>
       /\ treeState' = ClaimedToggle(treeState)
       /\ treeState' # FOCUS
       /\ focusedPhotoId' = focusedPhotoId
       /\ treeState \in {TREE_SHAPE, SCATTERED} =>
            ClaimedToggle(treeState') = treeState]_vars

\* C23 witness: the button was pressed, the mode is TREE_SHAPE and the
\* photo that had been focused is still the focused id (without gestures
\* Focus is left by the button only).
C23_Witness ==
  /\ event.type = "toggleState"
  /\ treeStateUpdates = <<ToggleUpdater>>
  /\ treeState = TREE_SHAPE
  /\ focusedPhotoId = PhotoId(0)
  /\ wheelListeners = {}

\* C24: a frame calls detectForVideo only while gesture mode is enabled and
\* on a landmarker that is open; the landmarker reference never holds a
\* closed landmarker; and a landmarker whose creation finishes after its
\* run was cancelled is closed and not published.
C24_NoDetectionOnReleasedModel ==
  [][/\ Detected(event') =>
          /\ visionEnabled
          /\ handLandmarkerRef # 0
          /\ landmarker[handLandmarkerRef] = "open"
     /\ handLandmarkerRef' # 0 => landmarker'[handLandmarkerRef'] = "open"
     /\ (/\ event'.type = "landmarker"
         /\ event'.status = "resolved"
         /\ ~isMounted[event'.n]) =>
          /\ landmarker'[event'.n] = "closed"
          /\ handLandmarkerRef' = handLandmarkerRef
          /\ handLandmarkerRef' # event'.n]_vars

\* C24 witness: gesture mode was switched off and on again while the first
\* run was creating its landmarker; frames have run detection on the
\* landmarker of the second run, and now the creation of the first run has
\* finished: that landmarker is closed and the second one is still the
\* published, open one.
C24_Witness ==
  /\ event.type = "landmarker"
  /\ event.status = "resolved"
  /\ event.n = 1
  /\ landmarker[1] = "closed"
  /\ visionEnabled
  /\ handLandmarkerRef = 2
  /\ landmarker[2] = "open"
  /\ lastVideoTimeRef >= 0

====
